---- MODULE Spec2Model ----
(***************************************************************************)
(* Model of src/main.py: a Streamlit dashboard script.  The hosting        *)
(* runtime executes the script top to bottom on every interaction; the two *)
(* loaders are memoised by st.cache_data for the life of the process.      *)
(*                                                                         *)
(* Text is modelled as tuples of code points, so that pathlib's suffix and *)
(* stem, str.split and Unicode normalisation are computed, not assumed.    *)
(* A Python dict is a tuple of [k, v] items in insertion order.  An        *)
(* optional value (None or a value) is a tuple of length 0 or 1.           *)
(***************************************************************************)
EXTENDS Integers, Sequences, FiniteSets, TLC

VARIABLES
    dir,              \* entries of Path("data") in iterdir() order
    env_cache,        \* st.cache_data store of load_environment_data
    growth_cache,     \* st.cache_data store of load_growth_data
    has_add_line,     \* whether the installed plotly Figure offers add_line
    pid,              \* generation of the server process
    pc,               \* position of the current script run
    env_data,         \* line 83
    growth_data,      \* line 84
    env_read,         \* this run executed the body of load_environment_data
    growth_read,      \* this run executed the body of load_growth_data
    selected_school,  \* line 111
    out,              \* elements rendered by this run, in order
    failure,          \* the exception that ended this run, "" if none
    summary_rows,     \* line 130
    total_count,      \* line 131
    summary,          \* line 227 (rows of summary_df)
    best,             \* line 240, optional
    concat_df         \* line 264

vars == <<dir, env_cache, growth_cache, has_add_line, pid, pc, env_data,
          growth_data, env_read, growth_read, selected_school, out, failure,
          summary_rows, total_count, summary, best, concat_df>>

-----------------------------------------------------------------------------
(* Bounds of the model *)

MaxFiles == 3       \* entries in an enumerated data directory
MaxRows == 2        \* specimens in an enumerated workbook sheet
MaxRestarts == 1    \* process restarts followed

-----------------------------------------------------------------------------
(* Text *)

S == <<"S">>        \* a configured school name, composed form
H == <<"H">>
A == <<"A">>
D == <<"D">>
X == <<"X">>        \* a school name the configuration does not hold
Sd == <<"s0", "s1">> \* the decomposed spelling of S

\* unicodedata.normalize("NFC", .): canonical composition of adjacent
\* code points; <<"s0","s1">> composes to "S", nothing else composes.
RECURSIVE NFC(_)
NFC(s) ==
    IF Len(s) = 0 THEN <<>>
    ELSE IF Len(s) >= 2 /\ s[1] = "s0" /\ s[2] = "s1"
         THEN <<"S">> \o NFC(SubSeq(s, 3, Len(s)))
         ELSE <<s[1]>> \o NFC(Tail(s))

normalize_name(name) == NFC(name)

\* str.rfind: the last position of ch, 0 when absent (positions from 1)
rfind(s, ch) ==
    IF \E i \in 1..Len(s) : s[i] = ch
    THEN CHOOSE i \in 1..Len(s) :
            s[i] = ch /\ \A j \in (i+1)..Len(s) : s[j] # ch
    ELSE 0

\* pathlib PurePath.suffix / .stem of a final path component
suffix(name) ==
    LET i == rfind(name, ".")
    IN  IF 1 < i /\ i < Len(name) THEN SubSeq(name, i, Len(name)) ELSE <<>>

stem(name) ==
    LET i == rfind(name, ".")
    IN  IF 1 < i /\ i < Len(name) THEN SubSeq(name, 1, i - 1) ELSE name

\* s.split("_")[0]
first_segment(s) ==
    IF \E i \in 1..Len(s) : s[i] = "_"
    THEN LET i == CHOOSE i \in 1..Len(s) :
                     s[i] = "_" /\ \A j \in 1..(i-1) : s[j] # "_"
         IN  SubSeq(s, 1, i - 1)
    ELSE s

DotCsv == <<".", "c", "s", "v">>
DotXlsx == <<".", "x", "l", "s", "x">>

-----------------------------------------------------------------------------
(* Python dict, insertion ordered *)

Item(k, v) == [k |-> k, v |-> v]
Has(d, k) == \E i \in DOMAIN d : d[i].k = k
Lookup(d, k) == d[CHOOSE i \in DOMAIN d : d[i].k = k].v

\* variant: setdefault, an existing key keeps its value
FirstPut(d, k, v) == IF Has(d, k) THEN d ELSE Append(d, Item(k, v))

\* d[k] = v: an existing key keeps its position and takes the new value
Put(d, k, v) ==
    IF Has(d, k)
    THEN [i \in DOMAIN d |-> IF d[i].k = k THEN Item(k, v) ELSE d[i]]
    ELSE Append(d, Item(k, v))

\* d.get(k): optional
Get(d, k) == IF Has(d, k) THEN <<Lookup(d, k)>> ELSE <<>>

-----------------------------------------------------------------------------
(* Files.  A directory entry is [name, table, sheets]: `table` identifies  *)
(* the rows pd.read_csv would parse from it, `sheets` is the dict of sheet *)
(* name -> fresh weights (one per specimen row) pd.read_excel would parse. *)
(* Files are taken to be readable and to carry the expected columns.       *)

File(name, table, sheets) == [name |-> name, table |-> table, sheets |-> sheets]

read_csv(f) == f.table
read_excel(f, i) == f.sheets[i].v
sheet_names(f) == [i \in DOMAIN f.sheets |-> f.sheets[i].k]

\* find_file_by_name: optional first entry whose normalised name matches
find_file_by_name(d, target_name) ==
    LET target_norm == normalize_name(target_name)
        hits == {i \in DOMAIN d : normalize_name(d[i].name) = target_norm}
    IN  IF hits = {} THEN <<>>
        ELSE <<d[CHOOSE i \in hits : \A j \in hits : i <= j]>>

-----------------------------------------------------------------------------
(* Loaders *)

\* variant: a scan in which the first file of a school is kept
RECURSIVE scan_csv_first(_, _)
scan_csv_first(d, acc) ==
    IF d = <<>> THEN acc
    ELSE scan_csv_first(Tail(d),
            IF suffix(Head(d).name) = DotCsv
            THEN FirstPut(acc, first_segment(stem(Head(d).name)), Head(d))
            ELSE acc)

school_files_first(d) == scan_csv_first(d, <<>>)

\* lines 47-51: the loop over data_dir.iterdir()
RECURSIVE scan_csv(_, _)
scan_csv(d, acc) ==
    IF d = <<>> THEN acc
    ELSE scan_csv(Tail(d),
            IF suffix(Head(d).name) = DotCsv
            THEN Put(acc, first_segment(stem(Head(d).name)), Head(d))
            ELSE acc)

school_files(d) == scan_csv(d, <<>>)

\* lines 45-57, the undecorated function
load_environment_data(d) ==
    LET sf == school_files(d)
    IN  [i \in DOMAIN sf |-> Item(sf[i].k, read_csv(sf[i].v))]

NoneValue == [is_none |-> TRUE, items |-> <<>>]
Dict(items) == [is_none |-> FALSE, items |-> items]

\* lines 62-66: the first .xlsx entry of the scan, optional
xlsx_file(d) ==
    LET hits == {i \in DOMAIN d : suffix(d[i].name) = DotXlsx}
    IN  IF hits = {} THEN <<>>
        ELSE <<d[CHOOSE i \in hits : \A j \in hits : i <= j]>>

\* lines 60-77, the undecorated function
load_growth_data(d) ==
    LET x == xlsx_file(d)
    IN  IF x = <<>> THEN NoneValue
        ELSE LET names == sheet_names(x[1])
             IN  Dict([i \in DOMAIN names |-> Item(names[i], read_excel(x[1], i))])

\* variant: a store that never hits
cache_never(store, value) == [value |-> value, store |-> <<value>>, ran |-> TRUE]

\* st.cache_data on a function without parameters: one store per function;
\* a hit returns the stored value and skips the body.  `store` is optional.
cache_data(store, value) ==
    IF store = <<>>
    THEN [value |-> value, store |-> <<value>>, ran |-> TRUE]
    ELSE [value |-> store[1], store |-> store, ran |-> FALSE]

\* variant: the guard with `and`
no_data_and(env, growth) ==
    env = <<>> /\ (growth.is_none \/ growth.items = <<>>)

\* line 86: not env_data or not growth_data
no_data(env, growth) ==
    env = <<>> \/ growth.is_none \/ growth.items = <<>>

-----------------------------------------------------------------------------
(* Static configuration, lines 93-105.  EC levels 1.0, 2.0, 4.0, 8.0.      *)

ec_conditions == <<Item(S, 1), Item(H, 2), Item(A, 4), Item(D, 8)>>

school_colors ==
    <<Item(S, "#1f77b4"), Item(H, "#2ca02c"),
      Item(A, "#ff7f0e"), Item(D, "#d62728")>>

ALL == <<"all">>    \* the selector's first option

\* line 110
schools(env) == <<ALL>> \o [i \in DOMAIN env |-> env[i].k]

-----------------------------------------------------------------------------
(* Aggregation *)

RECURSIVE Sum(_)
Sum(s) == IF s = <<>> THEN 0 ELSE Head(s) + Sum(Tail(s))

\* A mean is the exact quotient num/den; NaN is the quotient 0/0 that
\* Series.mean() yields on an empty column.
NaN == [num |-> 0, den |-> 0]
IsNaN(m) == m.den = 0
Greater(a, b) == a.num * b.den > b.num * a.den
SameValue(a, b) == a.num * b.den = b.num * a.den

mean(rows) ==
    IF rows = <<>> THEN NaN ELSE [num |-> Sum(rows), den |-> Len(rows)]

\* line 135: len(growth_data.get(school, []))
count_of(growth, school) ==
    IF Has(growth.items, school) THEN Len(Lookup(growth.items, school)) ELSE 0

\* lines 134-145
tab1_rows(env, growth) ==
    [i \in DOMAIN env |->
        [school |-> env[i].k,
         ec |-> Get(ec_conditions, env[i].k),
         count |-> count_of(growth, env[i].k),
         color |-> Get(school_colors, env[i].k)]]

tab1_total(env, growth) ==
    Sum([i \in DOMAIN env |-> count_of(growth, env[i].k)])

\* lines 227-236
tab3_summary(growth) ==
    [i \in DOMAIN growth.items |->
        [school |-> growth.items[i].k,
         ec |-> Get(ec_conditions, growth.items[i].k),
         mean_weight |-> mean(growth.items[i].v),
         count |-> Len(growth.items[i].v)]]

\* variant: a later entry that equals the running maximum replaces it
RECURSIVE arg_last_max(_, _, _)
arg_last_max(col, i, cur) ==
    IF i > Len(col) THEN cur
    ELSE arg_last_max(col, i + 1,
            IF IsNaN(col[i]) THEN cur
            ELSE IF cur = 0 \/ ~Greater(col[cur], col[i]) THEN i ELSE cur)

idxmax_last(col) == arg_last_max(col, 1, 0)

\* variant: the least entry is kept
RECURSIVE arg_min(_, _, _)
arg_min(col, i, cur) ==
    IF i > Len(col) THEN cur
    ELSE arg_min(col, i + 1,
            IF IsNaN(col[i]) THEN cur
            ELSE IF cur = 0 \/ Greater(col[cur], col[i]) THEN i ELSE cur)

idxmax_min(col) == arg_min(col, 1, 0)

\* Series.idxmax(): NaN entries are skipped, the first position of the
\* greatest remaining value is kept; 0 stands for "every entry is NaN",
\* on which the lookup of line 240 raises.
RECURSIVE arg_max(_, _, _)
arg_max(col, i, cur) ==
    IF i > Len(col) THEN cur
    ELSE arg_max(col, i + 1,
            IF IsNaN(col[i]) THEN cur
            ELSE IF cur = 0 \/ Greater(col[i], col[cur]) THEN i ELSE cur)

idxmax(col) == arg_max(col, 1, 0)

mean_column(rows) == [i \in DOMAIN rows |-> rows[i].mean_weight]

\* df.assign(school): every row of the table tagged with the school
assign(rows, school) == [i \in DOMAIN rows |-> [school |-> school, weight |-> rows[i]]]

\* variant: a concatenation that drops rows equal to one already present
RECURSIVE drop_duplicates(_)
drop_duplicates(rows) ==
    IF rows = <<>> THEN <<>>
    ELSE LET front == drop_duplicates(SubSeq(rows, 1, Len(rows) - 1))
             last == rows[Len(rows)]
         IN  IF \E i \in DOMAIN front : front[i] = last
             THEN front ELSE Append(front, last)

RECURSIVE concat_all(_)
concat_all(items) ==
    IF items = <<>> THEN <<>>
    ELSE assign(Head(items).v, Head(items).k) \o concat_all(Tail(items))

concat_dedup(items) == drop_duplicates(concat_all(items))

\* lines 264-266: pd.concat over the tagged tables, in dict order
RECURSIVE concat(_)
concat(items) ==
    IF items = <<>> THEN <<>>
    ELSE assign(Head(items).v, Head(items).k) \o concat(Tail(items))

-----------------------------------------------------------------------------
(* Inputs *)

Name(st, ext) == st \o ext

CsvS1 == File(Name(<<"S", "_", "1">>, DotCsv), 1, <<>>)
CsvS1new == File(Name(<<"S", "_", "1">>, DotCsv), 5, <<>>)
CsvS2 == File(Name(<<"S", "_", "2">>, DotCsv), 2, <<>>)
CsvSd == File(Name(<<"s0", "s1", "_", "1">>, DotCsv), 3, <<>>)
CsvX == File(Name(<<"X">>, DotCsv), 4, <<>>)
Txt == File(<<"S", ".", "t", "x", "t">>, 0, <<>>)
Hidden == File(DotCsv, 0, <<>>)
Upper == File(<<"H", ".", "C", "S", "V">>, 0, <<>>)

BookName == Name(<<"g">>, DotXlsx)
Book(sheets) == File(BookName, 0, sheets)
BookG == Book(<<Item(S, <<1, 3>>), Item(H, <<2>>)>>)
BookGnew == Book(<<Item(S, <<>>), Item(X, <<3>>)>>)
BookH == File(Name(<<"h">>, DotXlsx), 0, <<Item(H, <<1>>)>>)

Injective(s) == \A i, j \in DOMAIN s : s[i].name = s[j].name => i = j

\* directories of at most n entries with distinct names
DirsOf(entries, n) ==
    {s \in UNION {[1..k -> entries] : k \in 0..n} : Injective(s)}

LocatorEntries == {CsvS1, CsvS2, CsvSd, CsvX, Txt, Hidden, Upper, BookG, BookH}
LocatorDirs == DirsOf(LocatorEntries, MaxFiles)

Weights == {1, 2, 3}
Tables == UNION {[1..k -> Weights] : k \in 0..MaxRows}
SheetNames == {S, H, X}
Workbooks ==
    {<<Item(a, t)>> : a \in SheetNames, t \in Tables}
    \cup {<<Item(a, t), Item(b, u)>> :
            <<a, b>> \in {p \in SheetNames \X SheetNames : p[1] # p[2]},
            <<t, u>> \in Tables \X Tables}
\* workbooks of three sheets, over a few short tables
ShortTables == {<<>>, <<1>>, <<2>>, <<1, 1>>}
Workbooks3 ==
    {<<Item(p[1], t[1]), Item(p[2], t[2]), Item(p[3], t[3])>> :
        p \in {q \in [1..3 -> SheetNames] : \A i, j \in 1..3 : q[i] = q[j] => i = j},
        t \in [1..3 -> ShortTables]}
GrowthDirs == {<<CsvS1, CsvX, Book(w)>> : w \in Workbooks \cup Workbooks3}

\* directories the data folder moves between while the server runs
LiveDirs ==
    {a \o b \o c : a \in {<<>>, <<CsvS1>>, <<CsvS1new>>},
                   b \in {<<>>, <<CsvX>>},
                   c \in {<<>>, <<BookG>>, <<BookGnew>>}}

-----------------------------------------------------------------------------
(* The script run *)

Finished == {"stopped", "done", "crashed"}

FreshRun ==
    /\ pc = "load"
    /\ env_data = <<>>
    /\ growth_data = NoneValue
    /\ env_read = FALSE
    /\ growth_read = FALSE
    /\ selected_school = ALL
    /\ out = <<>>
    /\ failure = ""
    /\ summary_rows = <<>>
    /\ total_count = 0
    /\ summary = <<>>
    /\ best = <<>>
    /\ concat_df = <<>>

FreshProcess ==
    /\ env_cache = <<>>
    /\ growth_cache = <<>>
    /\ FreshRun

\* the server starts on a data folder
Init ==
    /\ dir \in LiveDirs
    /\ has_add_line \in BOOLEAN
    /\ pid = 0
    /\ FreshProcess

\* one run of the script on an enumerated data folder
InitRun ==
    /\ dir \in LocatorDirs \cup GrowthDirs
    /\ has_add_line \in BOOLEAN
    /\ pid = 0
    /\ FreshProcess

\* lines 82-84
Load ==
    /\ pc = "load"
    /\ LET e == cache_data(env_cache, load_environment_data(dir))
           g == cache_data(growth_cache, load_growth_data(dir))
       IN  /\ env_data' = e.value
           /\ env_cache' = e.store
           /\ env_read' = e.ran
           /\ growth_data' = g.value
           /\ growth_cache' = g.store
           /\ growth_read' = g.ran
    /\ pc' = "guard"
    /\ UNCHANGED <<dir, has_add_line, pid, selected_school, out, failure,
                   summary_rows, total_count, summary, best, concat_df>>

\* lines 86-88
Guard ==
    /\ pc = "guard"
    /\ IF no_data(env_data, growth_data)
       THEN /\ out' = Append(out, "error")
            /\ pc' = "stopped"
       ELSE /\ out' = out
            /\ pc' = "sidebar"
    /\ UNCHANGED <<dir, env_cache, growth_cache, has_add_line, pid, env_data,
                   growth_data, env_read, growth_read, selected_school,
                   failure, summary_rows, total_count, summary, best, concat_df>>

\* lines 110-111: the selector holds any one of its options
Sidebar ==
    /\ pc = "sidebar"
    /\ \E i \in DOMAIN schools(env_data) :
           selected_school' = schools(env_data)[i]
    /\ pc' = "tab1"
    /\ UNCHANGED <<dir, env_cache, growth_cache, has_add_line, pid, env_data,
                   growth_data, env_read, growth_read, out, failure,
                   summary_rows, total_count, summary, best, concat_df>>

\* lines 123-153
Tab1 ==
    /\ pc = "tab1"
    /\ summary_rows' = tab1_rows(env_data, growth_data)
    /\ total_count' = tab1_total(env_data, growth_data)
    /\ out' = out \o <<"dataframe", "metric", "metric", "metric", "metric">>
    /\ pc' = "tab2"
    /\ UNCHANGED <<dir, env_cache, growth_cache, has_add_line, pid, env_data,
                   growth_data, env_read, growth_read, selected_school,
                   failure, summary, best, concat_df>>

\* lines 207-219: a table and a download button per school
RECURSIVE raw_tables(_)
raw_tables(env) ==
    IF env = <<>> THEN <<>>
    ELSE <<"dataframe", "download_button">> \o raw_tables(Tail(env))

\* lines 158-219
Tab2 ==
    /\ pc = "tab2"
    /\ IF selected_school = ALL
       THEN /\ out' = out \o <<"plotly_chart">> \o raw_tables(env_data)
            /\ failure' = failure
            /\ pc' = "tab3"
       ELSE IF ~has_add_line
       THEN /\ out' = out \o <<"plotly_chart">>
            /\ failure' = "AttributeError"
            /\ pc' = "crashed"
       ELSE IF ~Has(ec_conditions, selected_school)
       THEN /\ out' = out \o <<"plotly_chart">>
            /\ failure' = "KeyError"
            /\ pc' = "crashed"
       ELSE /\ out' = out \o <<"plotly_chart", "plotly_chart">>
                          \o raw_tables(env_data)
            /\ failure' = failure
            /\ pc' = "tab3"
    /\ UNCHANGED <<dir, env_cache, growth_cache, has_add_line, pid, env_data,
                   growth_data, env_read, growth_read, selected_school,
                   summary_rows, total_count, summary, best, concat_df>>

\* lines 224-294
Tab3 ==
    /\ pc = "tab3"
    /\ summary' = tab3_summary(growth_data)
    /\ LET i == idxmax(mean_column(tab3_summary(growth_data)))
       IN  IF i = 0
           THEN /\ best' = <<>>
                /\ concat_df' = concat_df
                /\ out' = out
                /\ failure' = "KeyError"
                /\ pc' = "crashed"
           ELSE /\ best' = <<tab3_summary(growth_data)[i]>>
                /\ concat_df' = concat(growth_data.items)
                /\ out' = out \o <<"metric", "plotly_chart", "plotly_chart",
                                   "plotly_chart", "plotly_chart",
                                   "download_button">>
                /\ failure' = failure
                /\ pc' = "done"
    /\ UNCHANGED <<dir, env_cache, growth_cache, has_add_line, pid, env_data,
                   growth_data, env_read, growth_read, selected_school,
                   summary_rows, total_count>>

\* the locals of a run that is about to execute line 82
StartRun ==
    /\ pc' = "load"
    /\ env_data' = <<>>
    /\ growth_data' = NoneValue
    /\ env_read' = FALSE
    /\ growth_read' = FALSE
    /\ selected_school' = ALL
    /\ out' = <<>>
    /\ failure' = ""
    /\ summary_rows' = <<>>
    /\ total_count' = 0
    /\ summary' = <<>>
    /\ best' = <<>>
    /\ concat_df' = <<>>

\* an interaction: the runtime executes the script again
Rerun ==
    /\ pc \in Finished
    /\ StartRun
    /\ UNCHANGED <<dir, env_cache, growth_cache, has_add_line, pid>>

\* the contents of the data folder change between two runs
ChangeDir ==
    /\ pc \in Finished
    /\ dir' \in LiveDirs \ {dir}
    /\ UNCHANGED <<env_cache, growth_cache, has_add_line, pid, pc, env_data,
                   growth_data, env_read, growth_read, selected_school, out,
                   failure, summary_rows, total_count, summary, best, concat_df>>

\* the server process is started anew
Restart ==
    /\ pc \in Finished
    /\ pid < MaxRestarts
    /\ pid' = pid + 1
    /\ env_cache' = <<>>
    /\ growth_cache' = <<>>
    /\ StartRun
    /\ UNCHANGED <<dir, has_add_line>>

Run == Load \/ Guard \/ Sidebar \/ Tab1 \/ Tab2 \/ Tab3

Next == Run \/ Rerun \/ ChangeDir \/ Restart

Spec == Init /\ [][Next]_vars

SpecRun == InitRun /\ [][Run]_vars

-----------------------------------------------------------------------------
(* Properties *)

Loaded == pc # "load"
InTabs == pc \in {"sidebar", "tab1", "tab2", "tab3", "done", "crashed"}
GrowthTabRan == summary # <<>>
IsCsv(f) == suffix(f.name) = DotCsv
Identity(f) == first_segment(stem(f.name))

\* C1: when the environment mapping is empty or no workbook was found, the
\* run shows exactly one error and stops with nothing else rendered; the
\* tabs are reached only with both mappings non-empty, and then no error
\* is shown.
C1_GuardStops ==
    /\ (pc \notin {"load", "guard"} /\ (env_data = <<>> \/ growth_data.is_none))
          => pc = "stopped"
    /\ pc = "stopped" => out = <<"error">> /\ failure = ""
    /\ InTabs => /\ env_data # <<>>
                 /\ ~growth_data.is_none
                 /\ growth_data.items # <<>>
                 /\ \A i \in DOMAIN out : out[i] # "error"

C1_Witness ==
    /\ pc = "stopped"
    /\ env_data # <<>>
    /\ growth_data.is_none
    /\ out = <<"error">>

\* C2: whenever the growth tab runs on tables of which at least one holds a
\* specimen, a best row is selected; it is a row of the summary, has at
\* least one specimen, and no row with a specimen has a greater mean fresh
\* weight.
C2_BestIsMax ==
    (GrowthTabRan /\ \E i \in DOMAIN summary : summary[i].count >= 1)
        => /\ pc = "done"
           /\ best # <<>>
           /\ \E i \in DOMAIN summary : summary[i] = best[1]
           /\ best[1].count >= 1
           /\ \A i \in DOMAIN summary :
                  summary[i].count >= 1
                      => ~Greater(summary[i].mean_weight, best[1].mean_weight)

C2_Witness ==
    /\ pc = "done"
    /\ Len(summary) = 2
    /\ summary[1].count = 0
    /\ best = <<summary[2]>>

\* C3: a group of the environment files without a sheet in the workbook has
\* specimen count 0 in the overview and, once the growth tab has run, a
\* growth-average row of its own (the one that would read "N/A").
C3_MissingSheetShown ==
    pc = "done" =>
        \A k \in DOMAIN env_data :
            ~Has(growth_data.items, env_data[k].k)
                => /\ summary_rows[k].count = 0
                   /\ \E i \in DOMAIN summary :
                          summary[i].school = env_data[k].k

\* C4: once the growth tab has run, it has not raised, and no group without
\* specimens carries a NaN as its mean fresh weight.
C4_EmptyTableMarked ==
    GrowthTabRan =>
        /\ pc = "done"
        /\ \A i \in DOMAIN summary :
               summary[i].count = 0 => ~IsNaN(summary[i].mean_weight)

\* C5 as stated: right after the loaders return, their output is what the
\* data folder holds now.
C5_ReflectsFolder ==
    pc = "guard" => /\ env_data = load_environment_data(dir)
                    /\ growth_data = load_growth_data(dir)

\* C5 amended: within one process the first call of a loader reads the data
\* folder, and from then on the stored value is never replaced and every
\* run gets it without reading the folder, whatever the folder holds; only
\* a restart empties the stores.
C5_CachedUntilRestart ==
    [][/\ (pc = "load" /\ pc' = "guard" /\ env_cache = <<>>)
            => /\ env_read' /\ growth_read'
               /\ env_data' = load_environment_data(dir)
               /\ growth_data' = load_growth_data(dir)
       /\ (pid' = pid /\ env_cache # <<>>)
            => /\ env_cache' = env_cache
               /\ growth_cache' = growth_cache
               /\ (pc = "load" /\ pc' = "guard")
                     => /\ ~env_read' /\ ~growth_read'
                        /\ env_data' = env_cache[1]
                        /\ growth_data' = growth_cache[1]
       /\ (env_cache # <<>> /\ env_cache' = <<>>) => pid' # pid]_vars

C5_Witness ==
    /\ pc = "guard"
    /\ ~env_read
    /\ ~growth_read
    /\ env_data # load_environment_data(dir)
    /\ growth_data # load_growth_data(dir)

\* C6: with a plotly that offers add_line, a run whose selector holds a
\* group absent from the configuration renders all three tabs to the end.
C6_UnconfiguredRenders ==
    (has_add_line /\ pc \in Finished /\ pc # "stopped"
        /\ selected_school # ALL /\ ~Has(ec_conditions, selected_school))
        => pc = "done"

\* rows of the tables before position i of the growth mapping
RECURSIVE RowsBefore(_, _)
RowsBefore(items, i) ==
    IF i <= 1 THEN 0 ELSE Len(items[i - 1].v) + RowsBefore(items, i - 1)

\* C7: the long-form table has as many rows as the growth tables together,
\* and the rows of each table appear in it tagged with that table's group.
C7_ConcatRows ==
    pc = "done" =>
        LET items == growth_data.items
        IN  /\ Len(concat_df) = RowsBefore(items, Len(items) + 1)
            /\ \A i \in DOMAIN items : \A j \in DOMAIN items[i].v :
                   concat_df[RowsBefore(items, i) + j] =
                       [school |-> items[i].k, weight |-> items[i].v[j]]

C7_Witness ==
    /\ pc = "done"
    /\ Len(growth_data.items) = 2
    /\ growth_data.items[1].v = <<2, 2>>
    /\ growth_data.items[2].v = <<2>>
    /\ Len(concat_df) = 3

\* C8: the summary follows the sheet order of the workbook, and among the
\* rows whose mean equals the best mean the selected one comes first.
C8_FirstMaxWins ==
    pc = "done" =>
        /\ xlsx_file(dir) # <<>>
        /\ [i \in DOMAIN summary |-> summary[i].school]
               = sheet_names(xlsx_file(dir)[1])
        /\ \A i, j \in DOMAIN summary :
               (/\ summary[j] = best[1]
                /\ ~IsNaN(summary[i].mean_weight)
                /\ SameValue(summary[i].mean_weight, best[1].mean_weight))
                   => j <= i

C8_Witness ==
    /\ pc = "done"
    /\ Len(summary) = 2
    /\ summary[1].count = 1
    /\ summary[2].count = 2
    /\ SameValue(summary[1].mean_weight, summary[2].mean_weight)
    /\ best = <<summary[1]>>

\* C9: after a scan, every .csv entry's identity (first "_"-segment of its
\* stem) is a key, the key's table is that of the last such entry of the
\* scan, each key occurs once, and every key comes from a .csv entry.
C9_LastFileWins ==
    (Loaded /\ env_read) =>
        /\ \A i \in DOMAIN dir :
               IsCsv(dir[i]) =>
                   /\ Has(env_data, Identity(dir[i]))
                   /\ (\A j \in DOMAIN dir :
                          (j > i /\ IsCsv(dir[j]))
                              => Identity(dir[j]) # Identity(dir[i]))
                        => Lookup(env_data, Identity(dir[i])) = dir[i].table
        /\ \A k \in DOMAIN env_data :
               /\ env_data[k].k \in {S, Sd, X}
               /\ \E i \in DOMAIN dir :
                      IsCsv(dir[i]) /\ Identity(dir[i]) = env_data[k].k
        /\ \A k, l \in DOMAIN env_data :
               env_data[k].k = env_data[l].k => k = l

C9_Witness ==
    /\ pc = "guard"
    /\ dir = <<CsvS1, Txt, CsvS2>>
    /\ env_data = <<Item(S, 2)>>

\* C10: every group identity is in composed normal form, two entries whose
\* names agree after normalisation yield one identity, and an identity
\* that spells a configured name finds its EC target.
C10_NormalizedKeys ==
    Loaded =>
        /\ \A k \in DOMAIN env_data :
               env_data[k].k = normalize_name(env_data[k].k)
        /\ \A i, j \in DOMAIN dir :
               (/\ IsCsv(dir[i]) /\ IsCsv(dir[j])
                /\ normalize_name(dir[i].name) = normalize_name(dir[j].name))
                   => Identity(dir[i]) = Identity(dir[j])
        /\ \A k \in DOMAIN summary_rows :
               Has(ec_conditions, normalize_name(summary_rows[k].school))
                   => summary_rows[k].ec # <<>>

====
